---------------------------- MODULE Spec2Model ----------------------------
(***************************************************************************)
(* State-machine model of code_instruments/task.py: the Task lifecycle,    *)
(* the Tally aggregator with listener fan-out, and the three execution     *)
(* wrappers (Task.returns, Task.generates, Task.__enter__/__exit__).       *)
(*                                                                         *)
(* Spec        : one caller; every lifecycle call (a Task handler with its *)
(*               whole fan-out over the listener graph) is one step.       *)
(* SpecThreads : one thread per Task, all Tasks notifying one Tally; the   *)
(*               read and the write of Tally's per-key update are steps.   *)
(***************************************************************************)
EXTENDS Integers, Sequences, FiniteSets, TLC

\* ------------------------------------------------------------- universe
\* The Task objects and the Tally objects the caller has constructed.
TaskOrder == <<"t1", "t2">>
Tasks == {TaskOrder[i] : i \in 1..Len(TaskOrder)}
Tallies == {"A", "B"}

\* A Tally is only registered as a listener of a Tally of lower rank, which
\* keeps the listener graph acyclic (a cycle is unbounded recursion in
\* Tally.on_start).
Rank == [T \in Tallies |-> IF T = "A" THEN 1 ELSE 2]

\* Longest listeners list of a Task or of a Tally.
MaxListeners == 2
\* Most items one wrapped generator produces.
MaxItems == 2
\* Most calls of Tally.reset in one run; the clock has advanced by one at each.
MaxResets == 1

\* The counter keys a Task records (task.py:223, 247, 261), in the order a
\* Task's dict receives them.
KeyOrder == <<"outcome.hasStarted", "outcome.hasSucceeded", "outcome.hasFailed">>
Keys == {KeyOrder[i] : i \in 1..Len(KeyOrder)}

\* Python's None.
None == "None"
\* What a wrapped callable returns.
ReturnValues == {"v3"}
\* What a wrapped generator yields: 0, 1, 2, ... (test_task.py:47-50).
ItemAt(i) == i - 1
\* Errors caught by "except Exception" and errors that are not (KeyboardInterrupt,
\* SystemExit, GeneratorExit derive from BaseException only).
Exceptions == {"ValueError"}
BaseExceptions == {"KeyboardInterrupt"}
\* set.remove of a missing element (task.py:104, 112).
KeyError == "KeyError"

VARIABLES
    klisteners,    \* Task.listeners: [Tasks -> Seq(Tallies)]
    tlisteners,    \* Tally.listeners: [Tallies -> Seq(Tallies)]
    status,        \* Task.status
    tconsumed,     \* Task.consumed: a dict, a function on a subset of Keys
    return_value,  \* Task.return_value
    exception,     \* Task.exception
    consumed,      \* Tally.consumed
    pending,       \* Tally.pending
    start_time,    \* Tally.start_time
    now,           \* the clock read by datetime.datetime.now()
    mode,          \* which wrapper drives the Task: none/returns/generates/scoped
    pc,            \* where the wrapper is: new, body, done, closed
    produced,      \* the items the wrapped generator has produced so far
    received,      \* the items the consumer of Task.generates has been handed
    callres,       \* what the wrapped work itself did: <<"returned", v>>, <<"raised", e>>
    calls,         \* how many times the wrapped callable ran
    outcome,       \* what the wrapper's caller saw: <<"returned", v>>, <<"raised", e>>
    log,           \* per Task, the handler calls and deliveries in the order made
    terminals,     \* per Task, Task.consumed as it stood at each terminal transition
    tstart,        \* Task.start_time: the clock's reading at Task.on_start
    hist,          \* the Tally handler entries and exits of the latest lifecycle
                   \* call, each with the Tallies' state at that moment
    tpc,           \* SpecThreads: each thread's position
    treg           \* SpecThreads: the key a thread's merge loop is at, and the
                   \* value it read from Tally.consumed for that key

vars == <<klisteners, tlisteners, status, tconsumed, return_value, exception,
          consumed, pending, start_time, now, mode, pc, produced, received,
          callres, calls, outcome, log, terminals, tstart, hist, tpc, treg>>

\* ---------------------------------------------------------------- dicts
EmptyDict == [k \in {} |-> 0]

\* (d.get(k) or 0)
GetOrZero(d, k) == IF k \in DOMAIN d THEN d[k] ELSE 0

\* d[k] = (d.get(k) or 0) + n
DictAdd(d, k, n) == [j \in DOMAIN d \cup {k} |-> IF j = k THEN GetOrZero(d, k) + n ELSE d[j]]

\* for key in tc.keys(): d[key] = (d.get(key) or 0) + tc[key]
Merge(d, tc) == [j \in DOMAIN d \cup DOMAIN tc |-> GetOrZero(d, j) + GetOrZero(tc, j)]

\* ---------------------------------------------------------------- world
\* The program state a lifecycle call reads and writes, threaded through the
\* nested handler calls; raised is the error propagating out of the call in
\* progress (None when it is returning normally), stack the Tallies whose
\* handlers are on the call stack, innermost last.
World ==
    [status |-> status, tconsumed |-> tconsumed, return_value |-> return_value,
     exception |-> exception, consumed |-> consumed, pending |-> pending,
     log |-> log, terminals |-> terminals, tstart |-> tstart, hist |-> <<>>,
     stack |-> <<>>, raised |-> None]

Entry(who, ev) == [who |-> who, ev |-> ev]

\* The caller of the handler that is being entered or left: the Tally that
\* forwards the event, or the Task itself.
Sender(t, w) == IF w.stack = <<>> THEN t ELSE w.stack[Len(w.stack)]

\* Handler ev of Tally T is entered for Task t: what an observer placed at T
\* sees at that moment.
Enter(T, ev, t, w) ==
    [w EXCEPT !.log[t] = Append(@, Entry(T, ev)),
              !.hist = Append(@, [kind |-> "enter", who |-> T, ev |-> ev, task |-> t,
                                  sender |-> Sender(t, w), pending |-> w.pending,
                                  consumed |-> w.consumed, raised |-> None]),
              !.stack = Append(@, T)]

\* Handler ev of Tally T is left, by return or by the error w.raised.
Exit(T, ev, t, w) ==
    LET st == SubSeq(w.stack, 1, Len(w.stack) - 1)
        w1 == [w EXCEPT !.stack = st]
    IN [w1 EXCEPT !.hist = Append(@, [kind |-> "exit", who |-> T, ev |-> ev, task |-> t,
                                      sender |-> Sender(t, w1), pending |-> w.pending,
                                      consumed |-> w.consumed, raised |-> w.raised])]

RECURSIVE Tally_on_start(_, _, _), Tally_on_yield(_, _, _)
RECURSIVE Tally_on_success(_, _, _), Tally_on_failure(_, _, _)
RECURSIVE Notify(_, _, _, _)

\* The same loop over reversed(listeners)
Notify_Reversed(ls, ev, t, w) ==
    IF ls = <<>> \/ w.raised # None THEN w
    ELSE LET L == ls[Len(ls)]
             w1 == CASE ev = "start" -> Tally_on_start(L, t, w)
                      [] ev = "yield" -> Tally_on_yield(L, t, w)
                      [] ev = "success" -> Tally_on_success(L, t, w)
                      [] OTHER -> Tally_on_failure(L, t, w)
         IN Notify(SubSeq(ls, 1, Len(ls) - 1), ev, t, w1)

\* for listener in listeners: listener.on_<ev>(task)
\* An error raised by a listener leaves the loop.
Notify(ls, ev, t, w) ==
    IF ls = <<>> \/ w.raised # None THEN w
    ELSE LET L == Head(ls)
             w1 == CASE ev = "start" -> Tally_on_start(L, t, w)
                      [] ev = "yield" -> Tally_on_yield(L, t, w)
                      [] ev = "success" -> Tally_on_success(L, t, w)
                      [] OTHER -> Tally_on_failure(L, t, w)
         IN Notify(Tail(ls), ev, t, w1)

\* Tally.on_start with "self.pending.add(task)" left out
Tally_on_start_ForwardsOnly(T, t, w) ==
    LET w0 == Enter(T, "start", t, w)
    IN Exit(T, "start", t, Notify(tlisteners[T], "start", t, w0))

Tally_on_start(T, t, w) ==
    LET w0 == Enter(T, "start", t, w)
        w1 == Notify(tlisteners[T], "start", t, w0)
    IN Exit(T, "start", t, IF w1.raised # None THEN w1
                           ELSE [w1 EXCEPT !.pending[T] = @ \cup {t}])

Tally_on_yield(T, t, w) ==
    LET w0 == Enter(T, "yield", t, w)
    IN Exit(T, "yield", t, Notify(tlisteners[T], "yield", t, w0))

\* The same with self.pending.discard(task): a missing Task goes unnoticed
RemoveAndMerge_Discards(T, t, w) ==
    [w EXCEPT !.pending[T] = @ \ {t},
              !.consumed[T] = Merge(@, w.tconsumed[t])]

\* self.pending.remove(task), then the merge of task.consumed
RemoveAndMerge(T, t, w) ==
    IF t \notin w.pending[T] THEN [w EXCEPT !.raised = KeyError]
    ELSE [w EXCEPT !.pending[T] = @ \ {t},
                   !.consumed[T] = Merge(@, w.tconsumed[t])]

\* Tally.on_success with the remove and the merge done before the forwarding
Tally_on_success_MutatesFirst(T, t, w) ==
    LET w0 == Enter(T, "success", t, w)
        w1 == RemoveAndMerge(T, t, w0)
    IN Exit(T, "success", t, IF w1.raised # None THEN w1
                             ELSE Notify(tlisteners[T], "success", t, w1))

Tally_on_success(T, t, w) ==
    LET w0 == Enter(T, "success", t, w)
        w1 == Notify(tlisteners[T], "success", t, w0)
    IN Exit(T, "success", t, IF w1.raised # None THEN w1 ELSE RemoveAndMerge(T, t, w1))

\* Tally.on_failure without the loop that forwards to the listeners
Tally_on_failure_KeepsToItself(T, t, w) ==
    LET w0 == Enter(T, "failure", t, w)
    IN Exit(T, "failure", t, RemoveAndMerge(T, t, w0))

Tally_on_failure(T, t, w) ==
    LET w0 == Enter(T, "failure", t, w)
        w1 == Notify(tlisteners[T], "failure", t, w0)
    IN Exit(T, "failure", t, IF w1.raised # None THEN w1 ELSE RemoveAndMerge(T, t, w1))

\* ------------------------------------------------------- Task handlers
\* Task.end_time, args and kwargs, and the optional logger (None unless
\* Task.logs was called) are left out: no handler branches on them.
Task_on_start(t, w) ==
    LET w1 == [w EXCEPT !.tstart[t] = now,
                        !.status[t] = "Run",
                        !.tconsumed[t] = DictAdd(@, "outcome.hasStarted", 1)]
    IN Notify(klisteners[t], "start", t, w1)

Task_on_yield(t, value, w) == Notify(klisteners[t], "yield", t, w)

Task_on_success(t, value, w) ==
    LET tc == DictAdd(w.tconsumed[t], "outcome.hasSucceeded", 1)
        w1 == [w EXCEPT !.status[t] = "Succeed",
                        !.return_value[t] = value,
                        !.tconsumed[t] = tc,
                        !.terminals[t] = Append(@, tc)]
    IN Notify(klisteners[t], "success", t, w1)

Task_on_failure(t, err, w) ==
    LET tc == DictAdd(w.tconsumed[t], "outcome.hasFailed", 1)
        w1 == [w EXCEPT !.status[t] = "Fail",
                        !.exception[t] = err,
                        !.tconsumed[t] = tc,
                        !.terminals[t] = Append(@, tc)]
    IN Notify(klisteners[t], "failure", t, w1)

\* ------------------------------------------------------------ wrappers
\* What the wrapped work can do, and what "except Exception" catches.
Returned(v) == <<"returned", v>>
Raised(e) == <<"raised", e>>
Caught(e) == e \in Exceptions \cup {KeyError}

\* A wrapper's result: the world it leaves and what its caller sees.
Result(w, out) == [world |-> [w EXCEPT !.raised = None], out |-> out]

\* except Exception as err: self.on_failure(err); raise err
\* An error raised by on_failure itself replaces err.
ExceptClause(t, err, w) ==
    LET w1 == Task_on_failure(t, err, [w EXCEPT !.raised = None])
    IN IF w1.raised # None THEN Result(w1, Raised(w1.raised))
       ELSE Result(w1, Raised(err))

\* Task.returns from the return of callable() on: r is what callable() did.
Task_returns(t, r, w) ==
    IF r[1] = "returned"
    THEN LET w1 == Task_on_success(t, r[2], w)
         IN IF w1.raised # None THEN ExceptClause(t, w1.raised, w1)
            ELSE Result(w1, Returned(r[2]))
    ELSE IF Caught(r[2]) THEN ExceptClause(t, r[2], w)
         ELSE Result(w, Raised(r[2]))

\* Task.generates when the wrapped sequence is exhausted: self.on_success(None)
Task_generates_end(t, w) ==
    LET w1 == Task_on_success(t, None, w)
    IN IF w1.raised # None THEN ExceptClause(t, w1.raised, w1)
       ELSE Result(w1, Returned(None))

\* Task.generates when producing the next item raises e
Task_generates_raise(t, e, w) ==
    IF Caught(e) THEN ExceptClause(t, e, w) ELSE Result(w, Raised(e))

\* Task.__exit__: r is how the block was left
Task_exit(t, r, w) ==
    LET w1 == IF r[1] = "raised" THEN Task_on_failure(t, r[2], w)
              ELSE Task_on_success(t, None, w)
    IN IF w1.raised # None THEN Result(w1, Raised(w1.raised))
       ELSE Result(w1, r)

\* ------------------------------------------------------------- actions
Apply(w) ==
    /\ status' = w.status
    /\ tconsumed' = w.tconsumed
    /\ return_value' = w.return_value
    /\ exception' = w.exception
    /\ consumed' = w.consumed
    /\ pending' = w.pending
    /\ log' = w.log
    /\ terminals' = w.terminals
    /\ tstart' = w.tstart
    /\ hist' = w.hist

ThreadVars == <<tpc, treg>>
GraphVars == <<klisteners, tlisteners>>
TaskVars == <<status, tconsumed, return_value, exception, tstart>>
WrapperVars == <<mode, pc, produced, received, callres, calls, outcome>>
HistoryVars == <<log, terminals, hist>>

Init ==
    /\ klisteners = [t \in Tasks |-> <<>>]
    /\ tlisteners = [T \in Tallies |-> <<>>]
    /\ status = [t \in Tasks |-> "Unknown"]
    /\ tconsumed = [t \in Tasks |-> EmptyDict]
    /\ return_value = [t \in Tasks |-> None]
    /\ exception = [t \in Tasks |-> None]
    /\ consumed = [T \in Tallies |-> EmptyDict]
    /\ pending = [T \in Tallies |-> {}]
    /\ start_time = [T \in Tallies |-> 0]
    /\ now = 0
    /\ mode = [t \in Tasks |-> "none"]
    /\ pc = [t \in Tasks |-> "new"]
    /\ produced = [t \in Tasks |-> <<>>]
    /\ received = [t \in Tasks |-> <<>>]
    /\ callres = [t \in Tasks |-> <<>>]
    /\ calls = [t \in Tasks |-> 0]
    /\ outcome = [t \in Tasks |-> <<>>]
    /\ log = [t \in Tasks |-> <<>>]
    /\ terminals = [t \in Tasks |-> <<>>]
    /\ tstart = [t \in Tasks |-> None]
    /\ hist = <<>>
    /\ tpc = [t \in Tasks |-> "off"]
    /\ treg = [t \in Tasks |-> [key |-> 0, val |-> 0]]

\* Task objects are interchangeable: they are constructed in the order of
\* TaskOrder, each once the one before it has been started.
Constructed(t) ==
    \A i \in 1..Len(TaskOrder) :
        (i < Len(TaskOrder) /\ TaskOrder[i + 1] = t) => mode[TaskOrder[i]] # "none"

\* Task.notifies, before a wrapper drives the Task
TaskNotifies(t, T) ==
    /\ Constructed(t)
    /\ mode[t] = "none"
    /\ Len(klisteners[t]) < MaxListeners
    /\ klisteners' = [klisteners EXCEPT ![t] = Append(@, T)]
    /\ UNCHANGED <<tlisteners, TaskVars, consumed, pending, start_time, now,
                   WrapperVars, HistoryVars, ThreadVars>>

\* Tally.notifies; the Tallies are wired before the first Task is started
\* (the module's and the classes' Tallies, task.py:439-447).
TallyNotifies(T, L) ==
    /\ Rank[T] < Rank[L]
    /\ \A t \in Tasks : mode[t] = "none"
    /\ Len(tlisteners[T]) < MaxListeners
    /\ tlisteners' = [tlisteners EXCEPT ![T] = Append(@, L)]
    /\ UNCHANGED <<klisteners, TaskVars, consumed, pending, start_time, now,
                   WrapperVars, HistoryVars, ThreadVars>>

\* Tally.reset with "self.pending = set()" left out
ResetKeepsPending(T) ==
    /\ now < MaxResets
    /\ now' = now + 1
    /\ consumed' = [consumed EXCEPT ![T] = EmptyDict]
    /\ start_time' = [start_time EXCEPT ![T] = now']
    /\ UNCHANGED <<GraphVars, TaskVars, pending, WrapperVars, HistoryVars, ThreadVars>>

\* Tally.reset, at a reading of the clock later than every earlier one
Reset(T) ==
    /\ now < MaxResets
    /\ now' = now + 1
    /\ consumed' = [consumed EXCEPT ![T] = EmptyDict]
    /\ pending' = [pending EXCEPT ![T] = {}]
    /\ start_time' = [start_time EXCEPT ![T] = now']
    /\ UNCHANGED <<GraphVars, TaskVars, WrapperVars, HistoryVars, ThreadVars>>

\* The first part of a wrapper: self.on_start(), and the wrapped work begins.
Start(t, m) ==
    /\ Constructed(t)
    /\ mode[t] = "none"
    /\ LET w == Task_on_start(t, World)
       IN /\ Apply(w)
          /\ mode' = [mode EXCEPT ![t] = m]
          /\ pc' = [pc EXCEPT ![t] = "body"]
          /\ calls' = [calls EXCEPT ![t] = IF m = "scoped" THEN @ ELSE @ + 1]
    /\ UNCHANGED <<GraphVars, start_time, now, produced, received, callres,
                   outcome, ThreadVars>>

\* Task.returns up to the call of callable()
ReturnsStart(t) == Start(t, "returns")

\* Task.returns from the moment callable() returns v or raises e
ReturnsFinish(t, r) ==
    /\ mode[t] = "returns" /\ pc[t] = "body"
    /\ LET res == Task_returns(t, r, World)
       IN /\ Apply(res.world)
          /\ outcome' = [outcome EXCEPT ![t] = res.out]
    /\ callres' = [callres EXCEPT ![t] = r]
    /\ pc' = [pc EXCEPT ![t] = "done"]
    /\ UNCHANGED <<GraphVars, start_time, now, mode, produced, received, calls,
                   ThreadVars>>

\* Task.generates, first next(): up to the start of the wrapped generator
GeneratesStart(t) == Start(t, "generates")

\* The wrapped generator produces its next item: self.on_yield(item); yield item
GeneratesYield(t) ==
    /\ mode[t] = "generates" /\ pc[t] = "body"
    /\ Len(produced[t]) < MaxItems
    /\ LET item == ItemAt(Len(produced[t]) + 1)
           w == Task_on_yield(t, item, World)
       IN /\ Apply([w EXCEPT !.log[t] = Append(@, Entry("consumer", "item"))])
          /\ produced' = [produced EXCEPT ![t] = Append(@, item)]
          /\ received' = [received EXCEPT ![t] = Append(@, item)]
    /\ UNCHANGED <<GraphVars, start_time, now, mode, pc, callres, calls, outcome,
                   ThreadVars>>

\* The wrapped generator is exhausted.
GeneratesExhaust(t) ==
    /\ mode[t] = "generates" /\ pc[t] = "body"
    /\ LET res == Task_generates_end(t, World)
       IN /\ Apply(res.world)
          /\ outcome' = [outcome EXCEPT ![t] = res.out]
    /\ callres' = [callres EXCEPT ![t] = Returned(None)]
    /\ pc' = [pc EXCEPT ![t] = "done"]
    /\ UNCHANGED <<GraphVars, start_time, now, mode, produced, received, calls,
                   ThreadVars>>

\* The wrapped generator raises e instead of producing an item.
GeneratesRaise(t, e) ==
    /\ mode[t] = "generates" /\ pc[t] = "body"
    /\ LET res == Task_generates_raise(t, e, World)
       IN /\ Apply(res.world)
          /\ outcome' = [outcome EXCEPT ![t] = res.out]
    /\ callres' = [callres EXCEPT ![t] = Raised(e)]
    /\ pc' = [pc EXCEPT ![t] = "done"]
    /\ UNCHANGED <<GraphVars, start_time, now, mode, produced, received, calls,
                   ThreadVars>>

\* The consumer closes the generator while it is suspended at "yield item":
\* GeneratorExit is raised there, and "except Exception" does not catch it.
GeneratesClose(t) ==
    /\ mode[t] = "generates" /\ pc[t] = "body"
    /\ received[t] # <<>>
    /\ pc' = [pc EXCEPT ![t] = "closed"]
    /\ outcome' = [outcome EXCEPT ![t] = <<"closed", None>>]
    /\ UNCHANGED <<GraphVars, TaskVars, consumed, pending, start_time, now, mode,
                   produced, received, callres, calls, HistoryVars, ThreadVars>>

\* Task.__enter__
ScopeEnter(t) == Start(t, "scoped")

\* Task.__exit__: the block was left normally (r = Returned(None)) or by e
ScopeExit(t, r) ==
    /\ mode[t] = "scoped" /\ pc[t] = "body"
    /\ LET res == Task_exit(t, r, World)
       IN /\ Apply(res.world)
          /\ outcome' = [outcome EXCEPT ![t] = res.out]
    /\ callres' = [callres EXCEPT ![t] = r]
    /\ pc' = [pc EXCEPT ![t] = "done"]
    /\ UNCHANGED <<GraphVars, start_time, now, mode, produced, received, calls,
                   ThreadVars>>

\* What callable() can do, and how a block can be left.
CallResults ==
    {Returned(v) : v \in ReturnValues} \cup {Raised(e) : e \in Exceptions \cup BaseExceptions}
BlockResults ==
    {Returned(None)} \cup {Raised(e) : e \in Exceptions \cup BaseExceptions}

Next ==
    \/ \E t \in Tasks, T \in Tallies : TaskNotifies(t, T)
    \/ \E T \in Tallies, L \in Tallies : TallyNotifies(T, L)
    \/ \E T \in Tallies : Reset(T)
    \/ \E t \in Tasks : ReturnsStart(t)
    \/ \E t \in Tasks, r \in CallResults : ReturnsFinish(t, r)
    \/ \E t \in Tasks : GeneratesStart(t)
    \/ \E t \in Tasks : GeneratesYield(t)
    \/ \E t \in Tasks : GeneratesExhaust(t)
    \/ \E t \in Tasks, e \in Exceptions \cup BaseExceptions : GeneratesRaise(t, e)
    \/ \E t \in Tasks : GeneratesClose(t)
    \/ \E t \in Tasks : ScopeEnter(t)
    \/ \E t \in Tasks, r \in BlockResults : ScopeExit(t, r)

Spec == Init /\ [][Next]_vars

\* ------------------------------------------------------------- threads
\* One thread per Task, each running Task.returns on its own Task; every Task
\* notifies the one Tally Shared, which has no listeners. A thread switch can
\* fall between any two bytecodes, so the read self.consumed.get(key) and the
\* store self.consumed[key] = ... of task.py:106 and 114 are separate steps;
\* set.add, set.remove, dict.get and the dict store are each atomic.
Shared == "A"

InitThreads ==
    /\ klisteners = [t \in Tasks |-> <<Shared>>]
    /\ tlisteners = [T \in Tallies |-> <<>>]
    /\ status = [t \in Tasks |-> "Unknown"]
    /\ tconsumed = [t \in Tasks |-> EmptyDict]
    /\ return_value = [t \in Tasks |-> None]
    /\ exception = [t \in Tasks |-> None]
    /\ consumed = [T \in Tallies |-> EmptyDict]
    /\ pending = [T \in Tallies |-> {}]
    /\ start_time = [T \in Tallies |-> 0]
    /\ now = 0
    /\ mode = [t \in Tasks |-> "none"]
    /\ pc = [t \in Tasks |-> "new"]
    /\ produced = [t \in Tasks |-> <<>>]
    /\ received = [t \in Tasks |-> <<>>]
    /\ callres = [t \in Tasks |-> <<>>]
    /\ calls = [t \in Tasks |-> 0]
    /\ outcome = [t \in Tasks |-> <<>>]
    /\ log = [t \in Tasks |-> <<>>]
    /\ terminals = [t \in Tasks |-> <<>>]
    /\ tstart = [t \in Tasks |-> None]
    /\ hist = <<>>
    /\ tpc = [t \in Tasks |-> "idle"]
    /\ treg = [t \in Tasks |-> [key |-> 0, val |-> 0]]

\* The keys of the Task's dict in insertion order: for key in task.consumed.keys()
TaskKeys(t) == SelectSeq(KeyOrder, LAMBDA k : k \in DOMAIN tconsumed[t])

\* Task.returns up to the call of callable(): Task.on_start, Tally.on_start
ThreadStart(t) ==
    /\ tpc[t] = "idle"
    /\ Apply(Task_on_start(t, World))
    /\ mode' = [mode EXCEPT ![t] = "returns"]
    /\ pc' = [pc EXCEPT ![t] = "body"]
    /\ calls' = [calls EXCEPT ![t] = @ + 1]
    /\ tpc' = [tpc EXCEPT ![t] = "body"]
    /\ UNCHANGED <<GraphVars, start_time, now, produced, received, callres,
                   outcome, treg>>

\* callable() returns v: Task.on_success up to the call of Tally.on_success,
\* and Tally.on_success up to self.pending.remove(task)
ThreadSucceed(t, v) ==
    /\ tpc[t] = "body"
    /\ t \in pending[Shared]
    /\ status' = [status EXCEPT ![t] = "Succeed"]
    /\ return_value' = [return_value EXCEPT ![t] = v]
    /\ tconsumed' = [tconsumed EXCEPT ![t] = DictAdd(@, "outcome.hasSucceeded", 1)]
    /\ terminals' = [terminals EXCEPT ![t] = Append(@, tconsumed'[t])]
    /\ log' = [log EXCEPT ![t] = Append(@, Entry(Shared, "success"))]
    /\ pending' = [pending EXCEPT ![Shared] = @ \ {t}]
    /\ callres' = [callres EXCEPT ![t] = Returned(v)]
    /\ tpc' = [tpc EXCEPT ![t] = "read"]
    /\ treg' = [treg EXCEPT ![t] = [key |-> 1, val |-> 0]]
    /\ UNCHANGED <<GraphVars, exception, consumed, start_time, now, mode, pc,
                   produced, received, calls, outcome, tstart, hist>>

\* callable() raises e (an Exception): Task.on_failure and Tally.on_failure up
\* to self.pending.remove(task)
ThreadFail(t, e) ==
    /\ tpc[t] = "body"
    /\ t \in pending[Shared]
    /\ status' = [status EXCEPT ![t] = "Fail"]
    /\ exception' = [exception EXCEPT ![t] = e]
    /\ tconsumed' = [tconsumed EXCEPT ![t] = DictAdd(@, "outcome.hasFailed", 1)]
    /\ terminals' = [terminals EXCEPT ![t] = Append(@, tconsumed'[t])]
    /\ log' = [log EXCEPT ![t] = Append(@, Entry(Shared, "failure"))]
    /\ pending' = [pending EXCEPT ![Shared] = @ \ {t}]
    /\ callres' = [callres EXCEPT ![t] = Raised(e)]
    /\ tpc' = [tpc EXCEPT ![t] = "read"]
    /\ treg' = [treg EXCEPT ![t] = [key |-> 1, val |-> 0]]
    /\ UNCHANGED <<GraphVars, return_value, consumed, start_time, now, mode, pc,
                   produced, received, calls, outcome, tstart, hist>>

\* (self.consumed.get(key) or 0)
ThreadRead(t) ==
    /\ tpc[t] = "read"
    /\ treg' = [treg EXCEPT ![t].val = GetOrZero(consumed[Shared], TaskKeys(t)[treg[t].key])]
    /\ tpc' = [tpc EXCEPT ![t] = "write"]
    /\ UNCHANGED <<GraphVars, TaskVars, consumed, pending, start_time, now,
                   WrapperVars, HistoryVars>>

\* self.consumed[key] = <the value read> + task.consumed[key]; after the last
\* key the handlers return and Task.returns returns or re-raises
ThreadWrite(t) ==
    /\ tpc[t] = "write"
    /\ LET keys == TaskKeys(t)
           k == keys[treg[t].key]
           d == consumed[Shared]
           last == treg[t].key = Len(keys)
       IN /\ consumed' = [consumed EXCEPT ![Shared] =
                [j \in DOMAIN d \cup {k} |->
                    IF j = k THEN treg[t].val + tconsumed[t][k] ELSE d[j]]]
          /\ treg' = [treg EXCEPT ![t].key = IF last THEN @ ELSE @ + 1]
          /\ tpc' = [tpc EXCEPT ![t] = IF last THEN "done" ELSE "read"]
          /\ pc' = [pc EXCEPT ![t] = IF last THEN "done" ELSE @]
          /\ outcome' = [outcome EXCEPT ![t] = IF last THEN callres[t] ELSE @]
    /\ UNCHANGED <<GraphVars, TaskVars, pending, start_time, now, mode,
                   produced, received, callres, calls, HistoryVars>>

NextThreads ==
    \/ \E t \in Tasks : ThreadStart(t)
    \/ \E t \in Tasks, v \in ReturnValues : ThreadSucceed(t, v)
    \/ \E t \in Tasks, e \in Exceptions : ThreadFail(t, e)
    \/ \E t \in Tasks : ThreadRead(t)
    \/ \E t \in Tasks : ThreadWrite(t)

SpecThreads == InitThreads /\ [][NextThreads]_vars

\* ---------------------------------------------------------------- tree
\* A tree of Tallies as the klass decorator builds it (a Tally per class that
\* notifies the module's Tally, task.py:439-447): every Tally but the root
\* notifies its parent, and every Task notifies one leaf.
TreeTallies == {"A", "B", "C"}
TreeRoot == "C"
\* The shapes of a tree of three Tallies: two leaves under the root, or a chain.
TreeShapes ==
    {[T \in TreeTallies |-> IF T = TreeRoot THEN <<>> ELSE <<TreeRoot>>],
     [T \in TreeTallies |-> CASE T = "A" -> <<"B">> [] T = "B" -> <<TreeRoot>> [] OTHER -> <<>>]}
\* The Tallies of shape sh that no Tally notifies.
TreeLeaves(sh) ==
    {T \in TreeTallies : \A U \in TreeTallies : \A i \in 1..Len(sh[U]) : sh[U][i] # T}

InitTree ==
    /\ tlisteners \in TreeShapes
    /\ klisteners \in [Tasks -> {<<L>> : L \in TreeLeaves(tlisteners)}]
    /\ status = [t \in Tasks |-> "Unknown"]
    /\ tconsumed = [t \in Tasks |-> EmptyDict]
    /\ return_value = [t \in Tasks |-> None]
    /\ exception = [t \in Tasks |-> None]
    /\ consumed = [T \in TreeTallies |-> EmptyDict]
    /\ pending = [T \in TreeTallies |-> {}]
    /\ start_time = [T \in TreeTallies |-> 0]
    /\ now = 0
    /\ mode = [t \in Tasks |-> "none"]
    /\ pc = [t \in Tasks |-> "new"]
    /\ produced = [t \in Tasks |-> <<>>]
    /\ received = [t \in Tasks |-> <<>>]
    /\ callres = [t \in Tasks |-> <<>>]
    /\ calls = [t \in Tasks |-> 0]
    /\ outcome = [t \in Tasks |-> <<>>]
    /\ log = [t \in Tasks |-> <<>>]
    /\ terminals = [t \in Tasks |-> <<>>]
    /\ tstart = [t \in Tasks |-> None]
    /\ hist = <<>>
    /\ tpc = [t \in Tasks |-> "off"]
    /\ treg = [t \in Tasks |-> [key |-> 0, val |-> 0]]

NextTree ==
    \/ \E T \in TreeTallies : Reset(T)
    \/ \E t \in Tasks : ReturnsStart(t)
    \/ \E t \in Tasks, r \in CallResults : ReturnsFinish(t, r)
    \/ \E t \in Tasks : GeneratesStart(t)
    \/ \E t \in Tasks : GeneratesYield(t)
    \/ \E t \in Tasks : GeneratesExhaust(t)
    \/ \E t \in Tasks, e \in Exceptions \cup BaseExceptions : GeneratesRaise(t, e)
    \/ \E t \in Tasks : GeneratesClose(t)
    \/ \E t \in Tasks : ScopeEnter(t)
    \/ \E t \in Tasks, r \in BlockResults : ScopeExit(t, r)

SpecTree == InitTree /\ [][NextTree]_vars

\* -------------------------------------------------------------- claims
\* The handler calls Tally T received about Task t, in order.
EventsAt(t, T) ==
    LET sel == SelectSeq(log[t], LAMBDA e : e.who = T)
    IN [i \in 1..Len(sel) |-> sel[i].ev]

\* The listeners registered on Task t, and whether each is registered once.
ListenersOf(t) == {klisteners[t][i] : i \in 1..Len(klisteners[t])}
RegisteredOnce(t) ==
    \A i, j \in 1..Len(klisteners[t]) : klisteners[t][i] = klisteners[t][j] => i = j

\* n times the event ev
Repeat(ev, n) == [i \in 1..n |-> ev]

\* The position in log[t] of the k-th entry of who with event ev (0: none).
PositionOf(t, who, ev, k) ==
    LET hits == {i \in 1..Len(log[t]) : log[t][i] = Entry(who, ev)}
        upto(i) == Cardinality({j \in hits : j <= i})
    IN IF Cardinality(hits) < k THEN 0
       ELSE CHOOSE i \in hits : upto(i) = k

Terminal(t) == status[t] \in {"Succeed", "Fail"}

\* C1: a run of Task.returns whose callable returned normally, with listeners
\* each registered once: every listener received exactly on_start then
\* on_success (no on_failure, no on_yield) and returns handed back the
\* callable's result.
C1_ReturnsSuccess ==
    \A t \in Tasks :
        (mode[t] = "returns" /\ pc[t] = "done" /\ callres[t][1] = "returned"
            /\ RegisteredOnce(t))
        => /\ \A L \in ListenersOf(t) : EventsAt(t, L) = <<"start", "success">>
           /\ outcome[t] = callres[t]

\* C2: a run of Task.returns whose callable raised an error: every listener
\* received exactly on_start then on_failure (no on_success), the Task stores
\* the error as its exception, and returns re-raised that same error.
C2_ReturnsFailure ==
    \A t \in Tasks :
        (mode[t] = "returns" /\ pc[t] = "done" /\ callres[t][1] = "raised"
            /\ callres[t][2] \in Exceptions /\ RegisteredOnce(t))
        => /\ \A L \in ListenersOf(t) : EventsAt(t, L) = <<"start", "failure">>
           /\ exception[t] = callres[t][2]
           /\ outcome[t] = callres[t]

\* C3: a run of Task.generates over a sequence of N items consumed to
\* exhaustion: every listener received on_start, N on_yield, then one
\* on_success with return value None and no on_failure; the on_yield for an
\* item precedes its hand-over to the consumer; the consumer received the
\* same N items in the same order.
C3_GeneratesSuccess ==
    \A t \in Tasks :
        (mode[t] = "generates" /\ pc[t] = "done" /\ callres[t] = Returned(None)
            /\ RegisteredOnce(t))
        => LET n == Len(produced[t])
           IN /\ \A L \in ListenersOf(t) :
                    /\ EventsAt(t, L) = <<"start">> \o Repeat("yield", n) \o <<"success">>
                    /\ \A k \in 1..n :
                          PositionOf(t, L, "yield", k) < PositionOf(t, "consumer", "item", k)
              /\ return_value[t] = None
              /\ received[t] = produced[t]
              /\ outcome[t] = Returned(None)

\* C4: a call through Task.returns is indistinguishable from calling the
\* wrapped callable: the callable ran exactly once and the caller got the
\* same return value or the same raised error, whatever set of Tallies is
\* attached and whenever Tally.reset() was called on them.
C4_ReturnsTransparent ==
    \A t \in Tasks :
        (mode[t] = "returns" /\ pc[t] = "done" /\ RegisteredOnce(t))
        => calls[t] = 1 /\ outcome[t] = callres[t]

\* The number of registration paths that lead from the listeners list ls to T.
RECURSIVE Paths(_, _)
Paths(ls, T) ==
    IF ls = <<>> THEN 0
    ELSE (IF Head(ls) = T THEN 1 ELSE 0) + Paths(tlisteners[Head(ls)], T)
         + Paths(Tail(ls), T)

\* The per-key sum of the dicts ds[t], t in S.
RECURSIVE SumOf(_, _)
SumOf(ds, S) ==
    IF S = {} THEN EmptyDict
    ELSE LET t == CHOOSE x \in S : TRUE
         IN Merge(SumOf(ds, S \ {t}), ds[t])

Observed(T, t, evs) == \E i \in 1..Len(log[t]) : log[t][i].who = T /\ log[t][i].ev \in evs

\* C5: a Tally that was never reset, and that every Task it heard of notifies
\* along one path, holds for every key the sum, over the Tasks whose start
\* and terminal transition it has observed, of the Task's consumed at its
\* terminal transition (whatever the order of the terminal transitions).
C5_TallySum ==
    \A T \in Tallies :
        (/\ start_time[T] = 0
         /\ \A t \in Tasks :
               Observed(T, t, {"start", "yield", "success", "failure"})
               => Paths(klisteners[t], T) = 1)
        => consumed[T] =
              SumOf([t \in Tasks |-> IF terminals[t] = <<>> THEN EmptyDict
                                     ELSE terminals[t][1]],
                    {t \in Tasks : /\ Observed(T, t, {"start"})
                                   /\ Observed(T, t, {"success", "failure"})})

\* C6: between lifecycle calls, every Task in a Tally's pending set has
\* status Run.
C6_PendingRun ==
    \A T \in Tallies : \A t \in pending[T] : status[t] = "Run"

\* C7: when a started Task makes its terminal transition, every Tally whose
\* pending set contained it no longer does and has added the Task's consumed
\* to its own exactly once.
C7_TerminalSettles ==
    [][\A t \in Tasks :
          (status[t] = "Run" /\ Terminal(t)')
          => \A T \in Tallies :
                t \in pending[T]
                => /\ t \notin pending'[T]
                   /\ consumed'[T] = Merge(consumed[T], terminals'[t][1])]_vars

\* C8: a Task used as a scoped block: entering fired on_start once, leaving
\* fired exactly one terminal notification, on_failure with the propagating
\* error if an error left the block and on_success(None) otherwise, and an
\* error leaving the block still reached the caller.
C8_ScopedBlock ==
    \A t \in Tasks :
        (mode[t] = "scoped" /\ pc[t] = "done" /\ RegisteredOnce(t))
        => /\ GetOrZero(tconsumed[t], "outcome.hasStarted") = 1
           /\ Len(terminals[t]) = 1
           /\ IF callres[t][1] = "raised"
              THEN /\ status[t] = "Fail"
                   /\ exception[t] = callres[t][2]
                   /\ outcome[t] = callres[t]
              ELSE /\ status[t] = "Succeed"
                   /\ return_value[t] = None

\* C9: Tally.reset() leaves the Tally with empty consumed, empty pending and
\* start_time restarted at the clock's reading, and changes nothing else: not
\* its listeners, no other Tally, no Task. (Only Tally.reset reads the clock.)
C9_ResetFrame ==
    [][now' # now
       => \E T \in Tallies :
             /\ consumed'[T] = EmptyDict
             /\ pending'[T] = {}
             /\ start_time'[T] = now'
             /\ \A U \in Tallies \ {T} :
                   /\ consumed'[U] = consumed[U]
                   /\ pending'[U] = pending[U]
                   /\ start_time'[U] = start_time[U]
             /\ UNCHANGED <<GraphVars, TaskVars, WrapperVars, HistoryVars>>]_vars

\* C9 witness: a Tally that was reset while a Task it had started to track was
\* still running.
C9_Witness ==
    \E T \in Tallies, t \in Tasks :
        /\ start_time[T] > 0
        /\ T \in ListenersOf(t)
        /\ status[t] = "Run"
        /\ t \notin pending[T]
        /\ consumed[T] = EmptyDict
        /\ tlisteners[T] # <<>>

\* C10: threads that each drive their own Task, all notifying one Tally: once
\* every Task is terminal and its thread is done, the Tally's consumed is the
\* per-key sum of the Tasks' consumed and its pending set is empty.
C10_NoLostUpdate ==
    (\A t \in Tasks : tpc[t] = "done")
    => /\ consumed[Shared] = SumOf(tconsumed, Tasks)
       /\ pending[Shared] = {}


\* C11: a terminal handler (on_success or on_failure) called on a Task that
\* is already Succeed or Fail signals an error and leaves the Task's status,
\* return_value, exception and consumed counters as the first terminal
\* transition left them.
C11_SecondTerminalRejected ==
    \A t \in Tasks :
        Len(terminals[t]) > 1
        => /\ outcome[t][1] = "raised"
           /\ tconsumed[t] = terminals[t][1]
           /\ IF "outcome.hasSucceeded" \in DOMAIN terminals[t][1]
              THEN status[t] = "Succeed" /\ exception[t] = None
              ELSE status[t] = "Fail" /\ return_value[t] = None

\* C12: a run of Task.generates whose sequence produced k items and then
\* raised an error: every listener received on_start, k on_yield, then one
\* on_failure and no on_success, the Task holds that error, and the consumer
\* received the k items in order and then that same error.
C12_GeneratesFailure ==
    \A t \in Tasks :
        (mode[t] = "generates" /\ pc[t] = "done" /\ callres[t][1] = "raised"
            /\ callres[t][2] \in Exceptions /\ RegisteredOnce(t))
        => LET k == Len(produced[t])
           IN /\ \A L \in ListenersOf(t) :
                    EventsAt(t, L) = <<"start">> \o Repeat("yield", k) \o <<"failure">>
              /\ exception[t] = callres[t][2]
              /\ received[t] = produced[t]
              /\ outcome[t] = callres[t]

\* C13: a Task a wrapper has finished driving made exactly one terminal
\* transition: it is Succeed or Fail, outcome.hasStarted is 1 and
\* outcome.hasSucceeded + outcome.hasFailed is 1, whatever listeners are
\* attached and even when a Tally's terminal handler raised.
C13_OneTerminalTransition ==
    \A t \in Tasks :
        (pc[t] = "done" /\ ~(callres[t][1] = "raised" /\ callres[t][2] \in BaseExceptions
                                /\ mode[t] # "scoped"))
        => /\ Terminal(t)
           /\ Len(terminals[t]) = 1
           /\ GetOrZero(tconsumed[t], "outcome.hasStarted") = 1
           /\ GetOrZero(tconsumed[t], "outcome.hasSucceeded")
                + GetOrZero(tconsumed[t], "outcome.hasFailed") = 1

\* C14: return_value and exception are never both set: a Succeed Task has no
\* exception and a Fail Task has no return_value.
C14_ValueXorException ==
    \A t \in Tasks :
        /\ ~(return_value[t] # None /\ exception[t] # None)
        /\ status[t] = "Succeed" => exception[t] = None
        /\ status[t] = "Fail" => return_value[t] = None


\* The entry of Tally T's handler that is in progress at position i of hist.
EnclosingEnter(i, T) ==
    CHOOSE j \in 1..(i - 1) :
        /\ hist[j].kind = "enter" /\ hist[j].who = T
        /\ \A k \in (j + 1)..(i - 1) : ~(hist[k].kind = "enter" /\ hist[k].who = T)

TerminalEvents == {"success", "failure"}

\* C15 as stated: when a listener of Tally T receives on_start(task), task is
\* not in T.pending; when it receives on_success(task) or on_failure(task),
\* task is in T.pending and T.consumed is what it was when T received the
\* event; and the listener has updated its own pending before T does.
C15_ForwardsFirstAsStated ==
    \A i \in 1..Len(hist) :
        LET r == hist[i]
            T == r.sender
        IN T \in Tallies
           => /\ (r.kind = "enter" /\ r.ev = "start") => r.task \notin r.pending[T]
              /\ (r.kind = "enter" /\ r.ev \in TerminalEvents)
                  => /\ r.task \in r.pending[T]
                     /\ r.consumed[T] = hist[EnclosingEnter(i, T)].consumed[T]
              /\ (r.kind = "exit" /\ r.raised = None /\ r.ev = "start")
                  => r.task \in r.pending[r.who] /\ r.task \notin r.pending[T]
              /\ (r.kind = "exit" /\ r.raised = None /\ r.ev \in TerminalEvents)
                  => r.task \notin r.pending[r.who] /\ r.task \in r.pending[T]

\* C15 amended: a Tally T forwards each event to all of its listeners before
\* changing its own state: when a listener of T receives the event, and still
\* when that listener's handler has returned, T.pending and T.consumed are
\* what they were when T itself received the event; the listener has by then
\* made its own update (the Task added to its pending on on_start, removed
\* from it on on_success and on_failure).
C15_ForwardsFirst ==
    \A i \in 1..Len(hist) :
        LET r == hist[i]
            T == r.sender
        IN T \in Tallies
           => /\ r.pending[T] = hist[EnclosingEnter(i, T)].pending[T]
              /\ r.consumed[T] = hist[EnclosingEnter(i, T)].consumed[T]
              /\ (r.kind = "exit" /\ r.raised = None /\ r.ev = "start")
                  => r.task \in r.pending[r.who]
              /\ (r.kind = "exit" /\ r.raised = None /\ r.ev \in TerminalEvents)
                  => r.task \notin r.pending[r.who]

\* C15 witness: in a chain Task -> T1 -> T2, T2 has handled on_success and
\* removed the Task while T1 still held it, and T1 has removed it since.
C15_Witness ==
    \E i \in 1..Len(hist) :
        LET r == hist[i]
        IN /\ r.kind = "exit" /\ r.ev = "success" /\ r.raised = None
           /\ r.sender \in Tallies
           /\ r.task \in r.pending[r.sender]
           /\ r.task \notin r.pending[r.who]
           /\ r.task \notin pending[r.sender]
           /\ consumed[r.sender] # EmptyDict


\* C16: Tally.on_success or Tally.on_failure called on a Tally T for a Task
\* that is not in T.pending fails with an error and leaves T's own consumed
\* and pending as they were: the Task's counters are not merged into T.
C16_NotPendingFailsUnchanged ==
    \A j \in 1..Len(hist) :
        LET x == hist[j]
            T == x.who
        IN (x.kind = "exit" /\ x.ev \in TerminalEvents
               /\ x.task \notin hist[EnclosingEnter(j, T)].pending[T])
           => /\ x.raised # None
              /\ x.pending[T] = hist[EnclosingEnter(j, T)].pending[T]
              /\ x.consumed[T] = hist[EnclosingEnter(j, T)].consumed[T]

\* C16 witness: a Tally that had merged other Tasks' counters before has just
\* raised KeyError out of a terminal handler for a Task it did not hold, and
\* its listener had handled the event normally.
C16_Witness ==
    \E j \in 1..Len(hist) :
        LET x == hist[j]
            T == x.who
        IN /\ x.kind = "exit" /\ x.ev \in TerminalEvents /\ x.raised = KeyError
           /\ x.task \notin hist[EnclosingEnter(j, T)].pending[T]
           /\ tlisteners[T] # <<>>
           /\ hist[j - 1].kind = "exit" /\ hist[j - 1].raised = None
           /\ consumed[T] # EmptyDict


\* The Tallies that track Task t: those reachable from its listeners.
Tracking(t) == {T \in Tallies : Paths(klisteners[t], T) > 0}

\* C17 as stated: between lifecycle calls, every Task with status Run is in
\* the pending set of every Tally that tracks it, also after Tally.reset().
C17_RunIsPendingAsStated ==
    \A t \in Tasks :
        status[t] = "Run" => \A T \in Tracking(t) : t \in pending[T]

\* C17 amended: between lifecycle calls, every Task with status Run is in the
\* pending set of every Tally that tracks it and has not been reset since the
\* Task started.
C17_RunIsPending ==
    \A t \in Tasks :
        status[t] = "Run"
        => \A T \in Tracking(t) : start_time[T] <= tstart[t] => t \in pending[T]

\* C17 witness: a running Task tracked by two Tallies, one reset since the
\* Task started and no longer holding it, the other still holding it.
C17_Witness ==
    \E t \in Tasks, T \in Tallies, U \in Tallies :
        /\ status[t] = "Run"
        /\ T \in Tracking(t) /\ U \in Tracking(t)
        /\ start_time[T] > tstart[t] /\ t \notin pending[T]
        /\ start_time[U] <= tstart[t] /\ t \in pending[U]


\* C18: a Task started by Task.generates whose consumer is finished with the
\* sequence (it was exhausted, production raised an error, or the consumer
\* closed it early) has made a terminal transition and is in no Tally's
\* pending set.
C18_GeneratesTerminates ==
    \A t \in Tasks :
        (/\ mode[t] = "generates"
         /\ \/ pc[t] = "closed"
            \/ pc[t] = "done" /\ ~(callres[t][1] = "raised" /\ callres[t][2] \in BaseExceptions))
        => Terminal(t) /\ \A T \in Tallies : t \notin pending[T]

\* Depth-first delivery over the listeners list ls: each listener is entered,
\* delivers to its own listeners in their order, and is left before the next.
RECURSIVE Traversal(_)
Traversal(ls) ==
    IF ls = <<>> THEN <<>>
    ELSE <<[kind |-> "enter", who |-> Head(ls)]>> \o Traversal(tlisteners[Head(ls)])
         \o <<[kind |-> "exit", who |-> Head(ls)]>> \o Traversal(Tail(ls))

\* The handler entries and exits of the latest lifecycle call for event ev.
Delivery(ev) == SelectSeq(hist, LAMBDA r : r.ev = ev)

\* How many entries of d precede the first handler left by an error.
Undisturbed(d) ==
    IF \E i \in 1..Len(d) : d[i].raised # None
    THEN (CHOOSE i \in 1..Len(d) : d[i].raised # None /\ \A j \in 1..(i - 1) : d[j].raised = None) - 1
    ELSE Len(d)

C20_AllOrNothing ==
    (\E j \in 1..Len(hist) : /\ hist[j].ev \in TerminalEvents /\ hist[j].raised # None
                             /\ RegisteredOnce(hist[j].task))
    => LET i == CHOOSE k \in 1..Len(hist) :
                    /\ hist[k].ev \in TerminalEvents
                    /\ \A m \in 1..(k - 1) : hist[m].ev \notin TerminalEvents
       IN /\ hist[Len(hist)].pending = hist[i].pending
          /\ hist[Len(hist)].consumed = hist[i].consumed


\* The Tallies that notify T, and the per-key sum of the consumed of the
\* Tallies in S.
Children(T) ==
    {U \in TreeTallies : \E i \in 1..Len(tlisteners[U]) : tlisteners[U][i] = T}

RECURSIVE CountOver(_, _)
CountOver(S, k) ==
    IF S = {} THEN 0
    ELSE LET U == CHOOSE x \in S : TRUE
         IN GetOrZero(consumed[U], k) + CountOver(S \ {U}, k)

ConsumedOver(S) == [k \in UNION {DOMAIN consumed[U] : U \in S} |-> CountOver(S, k)]

\* C21: in a tree of Tallies in which every Task notifies one leaf, between
\* lifecycle calls and as long as no Tally has been reset, each non-leaf
\* Tally's consumed is the per-key sum of its children's consumed and its
\* pending set is the union of its children's pending sets.
C21_TreeSums ==
    now = 0
    => \A T \in TreeTallies :
          Children(T) # {}
          => /\ consumed[T] = ConsumedOver(Children(T))
             /\ pending[T] = UNION {pending[U] : U \in Children(T)}

\* C21 witness: no reset so far; the root has two children, each of which has
\* merged a finished Task, one succeeded and one failed.
C21_Witness ==
    /\ now = 0
    /\ Children(TreeRoot) = {"A", "B"}
    /\ GetOrZero(consumed["A"], "outcome.hasStarted") = 1
    /\ GetOrZero(consumed["B"], "outcome.hasStarted") = 1
    /\ GetOrZero(consumed[TreeRoot], "outcome.hasStarted") = 2
    /\ GetOrZero(consumed[TreeRoot], "outcome.hasSucceeded") = 1
    /\ GetOrZero(consumed[TreeRoot], "outcome.hasFailed") = 1

=============================================================================
